---- MODULE Spec2Model ----
(***************************************************************************)
(* Tagged-union post content of the GraphQL API: the write path            *)
(* (createPost -> _to_content_json -> validate -> model_dump_json), the    *)
(* single text column Post.content_json, and the read path                 *)
(* (json.loads -> validate -> output union).                               *)
(*                                                                         *)
(* Python values are tagged tuples (<<"str", s>>, <<"int", n>>,            *)
(* <<"NoneType">>, <<"TextFormat", member>>); a JSON text is the sequence  *)
(* of its <<key, token>> pairs, a token being <<"string", s>>,             *)
(* <<"number", n>> or <<"null">>.                                          *)
(***************************************************************************)
EXTENDS Integers, Sequences, FiniteSets, TLC

VARIABLES users, posts, last, dims, rt

vars == <<users, posts, last, dims, rt>>

\* ---------------------------------------------------------------- bounds
MaxPosts == 2
MaxUsers == 1
MaxDim == 2
MaxSide == 12
MaxPayloadDim == 2

\* --------------------------------------------------------- python values
None == <<"NoneType">>
PyStr(s) == <<"str", s>>
PyInt(n) == <<"int", n>>
Some(v) == <<"Some", v>>
IsStr(v) == v[1] = "str"

\* content_types.TextFormat: member name -> value
TextFormat == [MARKDOWN |-> "markdown", PLAIN |-> "plain"]
Member(name) == <<"TextFormat", name>>
IsTextFormat(v) == v[1] = "TextFormat"

\* the variants of PostContent, in declaration order
VariantNames == <<"text", "image", "link">>

Ok(v) == [ok |-> TRUE, val |-> v]
Err(e) == [ok |-> FALSE, err |-> e]

\* ------------------------------------------------------------ JSON codec
JNull == <<"null">>
JString(s) == <<"string", s>>
JNumber(n) == <<"number", n>>

ToJsonNames(v) ==
    IF v = None THEN JNull
    ELSE IF IsStr(v) THEN JString(v[2])
    ELSE IF IsTextFormat(v) THEN JString(v[2])
    ELSE JNumber(v[2])

\* pydantic's JSON serialisation of one field value
ToJson(v) ==
    IF v = None THEN JNull
    ELSE IF IsStr(v) THEN JString(v[2])
    ELSE IF IsTextFormat(v) THEN JString(TextFormat[v[2]])
    ELSE JNumber(v[2])

\* json.loads of one token
FromJson(t) ==
    IF t = JNull THEN None
    ELSE IF t[1] = "string" THEN PyStr(t[2])
    ELSE PyInt(t[2])

JsonKeys(text) == { text[i][1] : i \in DOMAIN text }

\* json.loads of an object: a dict; a repeated key keeps its last value
json_loads(text) ==
    [ k \in JsonKeys(text) |->
        LET i == CHOOSE i \in DOMAIN text :
                    /\ text[i][1] = k
                    /\ \A j \in DOMAIN text : text[j][1] = k => j <= i
        IN FromJson(text[i][2]) ]

\* ------------------------------------------------- pydantic content models
\* declared fields of each variant, in declaration order
\* (ImageContent declares type, url and caption only)
ModelFields ==
    [ text  |-> <<"type", "body", "format">>,
      image |-> <<"type", "url", "caption">>,
      link  |-> <<"type", "url", "title", "description">> ]

Has(d, k) == k \in DOMAIN d

\* a required field annotated str
StrOk(d, k) == Has(d, k) /\ IsStr(d[k])

\* a field annotated str | None = None
OptStrOk(d, k) == Has(d, k) => (d[k] = None \/ IsStr(d[k]))
OptStr(d, k) == IF Has(d, k) THEN d[k] ELSE None

\* a field annotated TextFormat: a member, or the value of a member
FormatOk(v) ==
    \/ IsTextFormat(v) /\ v[2] \in DOMAIN TextFormat
    \/ IsStr(v) /\ \E m \in DOMAIN TextFormat : TextFormat[m] = v[2]
ToFormat(v) ==
    IF IsTextFormat(v) THEN v
    ELSE Member(CHOOSE m \in DOMAIN TextFormat : TextFormat[m] = v[2])

\* TextContent.format's default
DefaultFormat == Member("PLAIN")

TextContent(d) ==
    IF ~StrOk(d, "body") THEN Err("ValidationError")
    ELSE IF Has(d, "format") /\ ~FormatOk(d["format"]) THEN Err("ValidationError")
    ELSE Ok(<<"TextContent",
              [ type   |-> PyStr("text"),
                body   |-> d["body"],
                format |-> IF Has(d, "format") THEN ToFormat(d["format"])
                                               ELSE DefaultFormat ]>>)

\* keys of the input that the model does not declare are ignored
ImageContent(d) ==
    IF ~StrOk(d, "url") \/ ~OptStrOk(d, "caption") THEN Err("ValidationError")
    ELSE Ok(<<"ImageContent",
              [ type    |-> PyStr("image"),
                url     |-> d["url"],
                caption |-> OptStr(d, "caption") ]>>)

LinkContent(d) ==
    IF ~StrOk(d, "url") \/ ~StrOk(d, "title") \/ ~OptStrOk(d, "description")
    THEN Err("ValidationError")
    ELSE Ok(<<"LinkContent",
              [ type        |-> PyStr("link"),
                url         |-> d["url"],
                title       |-> d["title"],
                description |-> OptStr(d, "description") ]>>)

validate_python_default(d) ==
    IF ~Has(d, "type") THEN Err("ValidationError")
    ELSE IF d["type"] = PyStr("image") THEN ImageContent(d)
    ELSE IF d["type"] = PyStr("link") THEN LinkContent(d)
    ELSE TextContent(d)

\* TypeAdapter(PostContent).validate_python: dispatch on the discriminator
validate_python(d) ==
    IF ~Has(d, "type") THEN Err("ValidationError")
    ELSE IF d["type"] = PyStr("text") THEN TextContent(d)
    ELSE IF d["type"] = PyStr("image") THEN ImageContent(d)
    ELSE IF d["type"] = PyStr("link") THEN LinkContent(d)
    ELSE Err("ValidationError")

\* BaseModel.model_dump_json: every declared field, in declaration order
model_dump_json(m) ==
    LET F == ModelFields[m[2]["type"][2]]
    IN [ i \in 1..Len(F) |-> <<F[i], ToJson(m[2][F[i]])>> ]

\* models.Post.content (getter)
PostContentGet(post) == json_loads(post.content_json)

\* models.Post.content (setter): the new content_json, or the error raised
PostContentSet(value) ==
    LET validated == validate_python(value)
    IN IF validated.ok THEN Ok(model_dump_json(validated.val)) ELSE validated

\* ------------------------------------------------ GraphQL input objects
\* A request variable is a wire value: <<"absent">> for a key that is not
\* given, a JSON token, or <<"object", fields>>.
Absent == <<"absent">>
WObject(fields) == <<"object", fields>>
IsWString(w) == w[1] = "string"
IsWNumber(w) == w[1] = "number"
IsWObject(w) == w[1] = "object"

\* Optional[str] = None
OptStrArg(w) == IF IsWString(w) THEN PyStr(w[2]) ELSE None
OptStrArgOk(w) == w = Absent \/ w = JNull \/ IsWString(w)

InputDefaultFormatMarkdown == Member("MARKDOWN")

\* TextContentInput.format's default
InputDefaultFormat == Member("PLAIN")

TextContentInput(w) ==
    IF ~IsWString(w.body) THEN Err("GraphQLError")
    ELSE IF w.format = Absent
    THEN Ok(<<"TextContentInput",
              [ body |-> PyStr(w.body[2]), format |-> InputDefaultFormat ]>>)
    ELSE IF IsWString(w.format) /\ w.format[2] \in DOMAIN TextFormat
    THEN Ok(<<"TextContentInput",
              [ body |-> PyStr(w.body[2]), format |-> Member(w.format[2]) ]>>)
    ELSE Err("GraphQLError")

\* width: int, height: int; no range is declared
ImageDimensionsInput(w) ==
    IF IsWNumber(w.width) /\ IsWNumber(w.height)
    THEN Ok(<<"ImageDimensionsInput",
              [ width |-> PyInt(w.width[2]), height |-> PyInt(w.height[2]) ]>>)
    ELSE Err("GraphQLError")

ImageContentInput(w) ==
    LET d == IF IsWObject(w.dimensions) THEN ImageDimensionsInput(w.dimensions[2])
                                        ELSE Ok(None)
    IN IF ~IsWString(w.url) \/ ~OptStrArgOk(w.caption) THEN Err("GraphQLError")
       ELSE IF ~(w.dimensions = Absent \/ w.dimensions = JNull \/ IsWObject(w.dimensions))
       THEN Err("GraphQLError")
       ELSE IF ~d.ok THEN d
       ELSE Ok(<<"ImageContentInput",
                 [ url        |-> PyStr(w.url[2]),
                   caption    |-> OptStrArg(w.caption),
                   dimensions |-> d.val ]>>)

LinkContentInput(w) ==
    IF ~IsWString(w.url) \/ ~IsWString(w.title) \/ ~OptStrArgOk(w.description)
    THEN Err("GraphQLError")
    ELSE Ok(<<"LinkContentInput",
              [ url         |-> PyStr(w.url[2]),
                title       |-> PyStr(w.title[2]),
                description |-> OptStrArg(w.description) ]>>)

VariantInput(k, w) ==
    IF k = "text" THEN TextContentInput(w)
    ELSE IF k = "image" THEN ImageContentInput(w)
    ELSE LinkContentInput(w)

\* the keys of a PostContentInput value that carry a non-null value
Populated(w) == { k \in DOMAIN w : IsWObject(w[k]) }

\* @oneOf: exactly one key is given, and it is not null
OneOfOff(w) == TRUE
OneOfAtLeastOne(w) ==
    /\ Cardinality({ k \in DOMAIN w : w[k] # Absent }) >= 1
    /\ \A k \in DOMAIN w : w[k] # JNull
OneOf(w) ==
    /\ Cardinality({ k \in DOMAIN w : w[k] # Absent }) = 1
    /\ \A k \in DOMAIN w : w[k] # JNull

\* a strawberry.Maybe field: None when the key is absent, Some(value) when given
MaybeField(k, w) ==
    IF w[k] = Absent THEN Ok(None)
    ELSE IF w[k] = JNull THEN Err("GraphQLError")
    ELSE LET v == VariantInput(k, w[k][2])
         IN IF v.ok THEN Ok(Some(v.val)) ELSE v

PostContentInput(w) ==
    LET f == [ k \in DOMAIN w |-> MaybeField(k, w) ]
    IN IF ~OneOf(w) THEN Err("GraphQLError")
       ELSE IF \E k \in DOMAIN w : ~f[k].ok THEN Err("GraphQLError")
       ELSE Ok(<<"PostContentInput", [ k \in DOMAIN w |-> f[k].val ]>>)

\* ------------------------------------------------------------ write path
InputClasses ==
    { "TextContentInput", "ImageDimensionsInput", "ImageContentInput",
      "LinkContentInput" }

\* dataclasses.asdict: nested dataclass instances become dicts
RECURSIVE asdict(_)
asdict(obj) ==
    [ k \in DOMAIN obj[2] |->
        IF obj[2][k][1] \in InputClasses THEN <<"dict", asdict(obj[2][k])>>
                                         ELSE obj[2][k] ]

\* the first field of the declaration order that is not None, or 0
FirstSet(content) ==
    LET S == { i \in DOMAIN VariantNames : content[2][VariantNames[i]] # None }
    IN IF S = {} THEN 0 ELSE CHOOSE i \in S : \A j \in S : i <= j

_to_content_json(content) ==
    LET i == FirstSet(content)
    IN IF i = 0 THEN Err("ValueError")
       ELSE LET name == VariantNames[i]
                data == [ type |-> PyStr(name) ] @@ asdict(content[2][name][2])
                validated == validate_python(data)
            IN IF validated.ok THEN Ok(model_dump_json(validated.val))
                               ELSE validated

\* users.id and posts.id are autoincrement keys: the first row gets 1
FirstId == 1

\* the key SQLite gives the next row of a table: one more than the largest
\* key in it
NextId(rows) ==
    IF Len(rows) = 0 THEN FirstId
    ELSE 1 + (CHOOSE n \in { rows[i].id : i \in DOMAIN rows } :
                 \A i \in DOMAIN rows : rows[i].id <= n)

\* Post.content_json's column default, the text "{}"
DefaultContentJson == << >>

\* Mutation.create_post: the content is translated before the session opens
create_post(ps, input) ==
    LET content_json == _to_content_json(input.content)
    IN IF ~content_json.ok
       THEN [ ok |-> FALSE, err |-> content_json.err, posts |-> ps ]
       ELSE [ ok |-> TRUE, err |-> "",
              posts |-> Append(ps, [ id           |-> NextId(ps),
                                     title        |-> input.title,
                                     content_json |-> content_json.val,
                                     user_id      |-> input.user_id ]) ]

\* a createPost request: the variables are coerced to the declared input
\* types, then the resolver runs
ExecuteCreatePost(ps, req) ==
    LET content == PostContentInput(req.content)
    IN IF ~content.ok
       THEN [ ok |-> FALSE, err |-> content.err, posts |-> ps ]
       ELSE create_post(ps, [ title   |-> req.title,
                              content |-> content.val,
                              user_id |-> req.user_id ])

\* ------------------------------------------------------------- read path
\* ImageDimensionsType.aspect_ratio; a str is the sequence of its characters
RECURSIVE gcd(_, _)
gcd(a, b) == IF b = 0 THEN a ELSE gcd(b, a % b)

DigitChars == <<"0", "1", "2", "3", "4", "5", "6", "7", "8", "9">>

RECURSIVE FormatInt(_)
FormatInt(n) ==
    IF n < 10 THEN <<DigitChars[n + 1]>>
    ELSE FormatInt(n \div 10) \o <<DigitChars[(n % 10) + 1]>>

aspect_ratio_width_only(width, height) ==
    LET d == gcd(width, height)
    IN FormatInt(width \div d) \o <<":">> \o FormatInt(height)

aspect_ratio(width, height) ==
    LET d == gcd(width, height)
    IN FormatInt(width \div d) \o <<":">> \o FormatInt(height \div d)

\* the output type of a validated content value
OutputTypeName ==
    [ TextContent  |-> "TextContentType",
      ImageContent |-> "ImageContentType",
      LinkContent  |-> "LinkContentType" ]

OutputFields ==
    [ TextContentType  |-> {"body", "format"},
      ImageContentType |-> {"url", "caption", "dimensions"},
      LinkContentType  |-> {"url", "title", "description"} ]

\* the fields a query selects on the content union; a selected field that
\* the content value does not carry is null
ContentOutput(m) ==
    LET tn == OutputTypeName[m[1]]
    IN <<tn, [ f \in OutputFields[tn] |->
                 IF f \in DOMAIN m[2] THEN m[2][f] ELSE None ]>>

\* PostType.content: re-validate the stored dict on every read
PostTypeContent(post) ==
    LET validated == validate_python(PostContentGet(post))
    IN IF validated.ok THEN Ok(ContentOutput(validated.val)) ELSE validated

\* ---------------------------------------------------------------- inputs
Titles == {"t"}
Names == {"Alice"}
DimValues == 0..MaxDim

TextWires ==
    { [ body |-> b, format |-> f ] :
        b \in {Absent, JString("a")},
        f \in {Absent, JString("PLAIN"), JString("MARKDOWN")} }

DimensionWires ==
    { WObject([ width |-> JNumber(w), height |-> JNumber(h) ]) :
        w \in DimValues, h \in DimValues }

ImageWires ==
    { [ url |-> JString("u"), caption |-> c, dimensions |-> Absent ] :
        c \in {Absent, JString("c")} }
    \cup { [ url |-> JString("u"), caption |-> Absent, dimensions |-> d ] :
             d \in DimensionWires }
    \cup { [ url |-> Absent, caption |-> Absent, dimensions |-> Absent ] }

LinkWires ==
    { [ url |-> JString("u"), title |-> t, description |-> d ] :
        t \in {Absent, JString("t")}, d \in {Absent, JString("d")} }

\* absent, null, a value with valid fields and (text, image) a value with a
\* required field missing, for the requests that give several keys
TextSamples ==
    {Absent, JNull} \cup
    { WObject([ body |-> b, format |-> Absent ]) : b \in {Absent, JString("a")} }
ImageSamples ==
    {Absent, JNull} \cup
    { WObject([ url |-> u, caption |-> Absent, dimensions |-> Absent ]) :
        u \in {Absent, JString("u")} }
LinkSamples ==
    {Absent, WObject([ url |-> JString("u"), title |-> JString("t"),
                       description |-> Absent ])}

ContentWires ==
    { [ text |-> WObject(t), image |-> Absent, link |-> Absent ] : t \in TextWires }
    \cup { [ text |-> Absent, image |-> WObject(i), link |-> Absent ] : i \in ImageWires }
    \cup { [ text |-> Absent, image |-> Absent, link |-> WObject(l) ] : l \in LinkWires }
    \cup { [ text |-> t, image |-> i, link |-> l ] :
             t \in TextSamples, i \in ImageSamples, l \in LinkSamples }

Requests ==
    { [ title |-> t, content |-> c, user_id |-> FirstId ] :
        t \in Titles, c \in ContentWires }

\* content_json values handed to the Post constructor directly
RawContentJsons ==
    { << <<"type", JString("text")>>, <<"body", JString("a")>>,
         <<"format", JString("plain")>> >>,
      << <<"type", JString("image")>>, <<"url", JString("u")>> >>,
      << <<"type", JString("video")>>, <<"body", JString("a")>> >>,
      << <<"type", JString("text")>> >> }

\* the content_json keyword of the constructor: << >> when it is not given
\* (the column default applies), <<text>> when it is
ContentJsonArgs == { << >> } \cup { <<c>> : c \in RawContentJsons }

\* dicts assigned to Post.content
ContentValues ==
    { [ type |-> PyStr("text"), body |-> PyStr("a"), format |-> PyStr("markdown") ],
      [ type |-> PyStr("link"), url |-> PyStr("u"), title |-> PyStr("t") ],
      [ type |-> PyStr("video"), body |-> PyStr("a") ],
      [ body |-> PyStr("a") ] }

\* the requests of the runs that also write through the ORM
OrmRequests ==
    { r \in Requests :
        /\ r.content.text \in TextSamples
        /\ r.content.image \in ImageSamples
        /\ r.content.link \in LinkSamples
        /\ Cardinality({ k \in DOMAIN r.content : r.content[k] # Absent }) \in {1, 2} }

\* inputs of the codec round trip: dicts that a variant accepts
PayloadStrings == {"a", "b"}
CodecInputs ==
    { [ type |-> PyStr("text"), body |-> PyStr(b) ] : b \in PayloadStrings }
    \cup { [ type |-> PyStr("text"), body |-> PyStr(b), format |-> f ] :
             b \in PayloadStrings,
             f \in { Member(m) : m \in DOMAIN TextFormat }
                   \cup { PyStr(TextFormat[m]) : m \in DOMAIN TextFormat } }
    \cup { [ type |-> PyStr("image"), url |-> PyStr(u) ] : u \in PayloadStrings }
    \cup { [ type |-> PyStr("image"), url |-> PyStr(u), caption |-> c ] :
             u \in PayloadStrings, c \in {None, PyStr("c")} }
    \cup { [ type |-> PyStr("image"), url |-> PyStr(u), caption |-> c,
             dimensions |-> <<"dict", [ width |-> PyInt(w), height |-> PyInt(h) ]>> ] :
             u \in PayloadStrings, c \in {None, PyStr("c")},
             w \in 1..MaxPayloadDim, h \in 1..MaxPayloadDim }
    \cup { [ type |-> PyStr("link"), url |-> PyStr(u), title |-> PyStr("t") ] :
             u \in PayloadStrings }
    \cup { [ type |-> PyStr("link"), url |-> PyStr(u), title |-> PyStr("t"),
             description |-> d ] :
             u \in PayloadStrings, d \in {None, PyStr("d")} }

\* sides of the aspect-ratio runs
Sides == (1..MaxSide) \cup {100, 1080, 1920}

\* --------------------------------------------------------------- actions
Init ==
    /\ users = << >>
    /\ posts = << >>
    /\ last = [ op |-> "init" ]
    /\ dims = [ width |-> 1, height |-> 1, ratio |-> << >> ]
    /\ rt = [ stage |-> "idle" ]

\* Mutation.create_user
CreateUser(name) ==
    /\ Len(users) < MaxUsers
    /\ NextId(users) < FirstId + MaxUsers
    /\ users' = Append(users, [ id |-> NextId(users), name |-> name ])
    /\ last' = [ op |-> "createUser", ok |-> TRUE ]
    /\ UNCHANGED <<posts, dims, rt>>

\* a createPost request and its response (the created post's content)
CreatePost(req) ==
    \E r \in {ExecuteCreatePost(posts, req)} :
       /\ Len(r.posts) <= MaxPosts
       /\ posts' = r.posts
       /\ last' = [ op |-> "createPost", input |-> req, ok |-> r.ok, err |-> r.err,
                    data |-> IF r.ok THEN PostTypeContent(r.posts[Len(r.posts)])
                                     ELSE Err(r.err) ]
       /\ UNCHANGED <<users, dims, rt>>

\* Query.posts with the content of every post selected
QueryPosts ==
    /\ last' = [ op |-> "posts",
                 data |-> [ i \in DOMAIN posts |-> PostTypeContent(posts[i]) ] ]
    /\ UNCHANGED <<users, posts, dims, rt>>

\* Post(title=..., content_json=..., user_id=...), session.add, session.commit
PostConstruct(title, content_json, user_id) ==
    /\ Len(posts) < MaxPosts
    /\ posts' = Append(posts,
                  [ id           |-> NextId(posts),
                    title        |-> title,
                    content_json |-> IF Len(content_json) = 0 THEN DefaultContentJson
                                                            ELSE content_json[1],
                    user_id      |-> user_id ])
    /\ last' = [ op |-> "Post", content_json |-> content_json ]
    /\ UNCHANGED <<users, dims, rt>>

\* post.content = value, session.commit
PostContentAssign(i, value) ==
    \E r \in {PostContentSet(value)} :
       /\ posts' = IF r.ok THEN [ posts EXCEPT ![i].content_json = r.val ] ELSE posts
       /\ last' = [ op |-> "Post.content", index |-> i, value |-> value,
                    ok |-> r.ok, err |-> IF r.ok THEN "" ELSE r.err ]
       /\ UNCHANGED <<users, dims, rt>>

\* session.delete(user), session.commit: User.posts cascades "all,
\* delete-orphan", so the posts whose user_id is the user's id go with it
DeleteUser(i) ==
    /\ users' = SubSeq(users, 1, i - 1) \o SubSeq(users, i + 1, Len(users))
    /\ posts' = SelectSeq(posts, LAMBDA p : p.user_id # users[i].id)
    /\ last' = [ op |-> "User.delete", user_id |-> users[i].id ]
    /\ UNCHANGED <<dims, rt>>

Next ==
    \/ \E name \in Names : CreateUser(name)
    \/ \E req \in Requests : CreatePost(req)
    \/ QueryPosts

Spec == Init /\ [][Next]_vars

NextOrm ==
    \/ \E name \in Names : CreateUser(name)
    \/ \E req \in OrmRequests : CreatePost(req)
    \/ QueryPosts
    \/ \E t \in Titles, c \in ContentJsonArgs : PostConstruct(t, c, FirstId)
    \/ \E i \in DOMAIN posts, v \in ContentValues : PostContentAssign(i, v)
    \/ \E i \in DOMAIN users : DeleteUser(i)

SpecOrm == Init /\ [][NextOrm]_vars

\* ---- the codec on its own: validate, encode, decode
InitCodec ==
    /\ users = << >>
    /\ posts = << >>
    /\ last = [ op |-> "init" ]
    /\ dims = [ width |-> 1, height |-> 1, ratio |-> << >> ]
    /\ \E x \in CodecInputs : rt = [ stage |-> "input", x |-> x ]

Validate ==
    /\ rt.stage = "input"
    /\ rt' = [ stage |-> "validated", x |-> rt.x, validated |-> validate_python(rt.x) ]
    /\ UNCHANGED <<users, posts, last, dims>>

Encode ==
    /\ rt.stage = "validated"
    /\ rt.validated.ok
    /\ rt' = [ stage |-> "encoded", x |-> rt.x, validated |-> rt.validated,
               encoded |-> model_dump_json(rt.validated.val) ]
    /\ UNCHANGED <<users, posts, last, dims>>

Decode ==
    /\ rt.stage = "encoded"
    /\ rt' = [ stage |-> "decoded", x |-> rt.x, validated |-> rt.validated,
               encoded |-> rt.encoded,
               decoded |-> validate_python(json_loads(rt.encoded)) ]
    /\ UNCHANGED <<users, posts, last, dims>>

NextCodec == Validate \/ Encode \/ Decode

SpecCodec == InitCodec /\ [][NextCodec]_vars

\* ---- aspect_ratio on its own
InitAspect ==
    /\ users = << >>
    /\ posts = << >>
    /\ last = [ op |-> "init" ]
    /\ rt = [ stage |-> "idle" ]
    /\ \E w \in Sides, h \in Sides : dims = [ width |-> w, height |-> h, ratio |-> << >> ]

AspectRatio ==
    /\ dims.ratio = << >>
    /\ dims' = [ dims EXCEPT !.ratio = aspect_ratio(dims.width, dims.height) ]
    /\ UNCHANGED <<users, posts, last, rt>>

NextAspect == AspectRatio

SpecAspect == InitAspect /\ [][NextAspect]_vars

\* =================================================================== claims
\* what the data model asks of a variant's fields, stated on the request
RequiredGiven(k, w) ==
    IF k = "text" THEN IsWString(w.body)
    ELSE IF k = "image" THEN IsWString(w.url)
    ELSE IsWString(w.url) /\ IsWString(w.title)

PositiveDims(w) ==
    /\ IsWObject(w)
    /\ IsWNumber(w[2].width) /\ w[2].width[2] > 0
    /\ IsWNumber(w[2].height) /\ w[2].height[2] > 0

FieldsValid(k, w) ==
    /\ RequiredGiven(k, w)
    /\ k = "text" =>
         (w.format = Absent \/ \E m \in DOMAIN TextFormat : w.format = JString(m))
    /\ k = "image" =>
         /\ OptStrArgOk(w.caption)
         /\ (w.dimensions = Absent \/ PositiveDims(w.dimensions))
    /\ k = "link" => OptStrArgOk(w.description)

GivenKeys(c) == { k \in DOMAIN c : c[k] # Absent }
IsCreatePost == last.op = "createPost"
Created == IsCreatePost /\ last.ok
\* the one populated key of a request that populates one, and its value
TheKey(c) == CHOOSE k \in Populated(c) : TRUE
TheValue(c) == c[TheKey(c)][2]
NewPost == posts[Len(posts)]

Rejectable(c) ==
    \/ Cardinality(Populated(c)) # 1
    \/ \E k \in Populated(c) : ~RequiredGiven(k, c[k][2])

C2_RejectedLeavesStore ==
    [][ /\ last'.op = "createPost" =>
             /\ Rejectable(last'.input.content) => ~last'.ok
             /\ ~last'.ok => posts' = posts
        /\ posts' # posts =>
             /\ last'.op = "createPost" /\ last'.ok
             /\ Len(posts') = Len(posts) + 1
             /\ SubSeq(posts', 1, Len(posts)) = posts
             /\ posts'[Len(posts')].title = last'.input.title
             /\ posts'[Len(posts')].user_id = last'.input.user_id ]_vars

C2_Witness ==
    /\ IsCreatePost
    /\ Rejectable(last.input.content)
    /\ ~last.ok
    /\ Len(posts) >= 1

\* C3: decoding the string that encodes a validated value yields that value:
\* decode(encode(validate(x))) = validate(x) for every valid variant input x.
C3_RoundTrip ==
    /\ rt.stage = "validated" => rt.validated.ok
    /\ rt.stage = "decoded" => rt.decoded = rt.validated

C3_Witness ==
    /\ rt.stage = "decoded"
    /\ rt.x["type"] = PyStr("image")
    /\ "dimensions" \in DOMAIN rt.x
    /\ rt.decoded.ok

\* C4 as stated: every persisted post's content_json carries a discriminator
\* in {text, image, link} and satisfies that variant's field rules.
KnownTypes == { PyStr(VariantNames[i]) : i \in DOMAIN VariantNames }

C4_AsStated ==
    \A i \in DOMAIN posts :
        LET d == json_loads(posts[i].content_json)
        IN /\ "type" \in DOMAIN d
           /\ d["type"] \in KnownTypes
           /\ validate_python(d).ok

\* the canonical fields a request submits, as the output type of its variant
SubmittedDims(w) ==
    IF IsWObject(w)
    THEN <<"ImageDimensionsType", [ width  |-> PyInt(w[2].width[2]),
                                    height |-> PyInt(w[2].height[2]) ]>>
    ELSE None

Submitted(k, w) ==
    IF k = "text"
    THEN <<"TextContentType",
           [ body   |-> PyStr(w.body[2]),
             format |-> IF w.format = Absent THEN Member("PLAIN")
                                             ELSE Member(w.format[2]) ]>>
    ELSE IF k = "image"
    THEN <<"ImageContentType",
           [ url        |-> PyStr(w.url[2]),
             caption    |-> OptStrArg(w.caption),
             dimensions |-> SubmittedDims(w.dimensions) ]>>
    ELSE <<"LinkContentType",
           [ url         |-> PyStr(w.url[2]),
             title       |-> PyStr(w.title[2]),
             description |-> OptStrArg(w.description) ]>>

\* C5 as stated: after a successful createPost that populates k the stored
\* discriminator is k and the content reads back as k's output type with the
\* canonical field values that were submitted.
C5_AsStated ==
    (Created /\ FieldsValid(TheKey(last.input.content), TheValue(last.input.content))) =>
        LET c == last.input.content
        IN /\ json_loads(NewPost.content_json)["type"] = PyStr(TheKey(c))
           /\ last.data = Ok(Submitted(TheKey(c), TheValue(c)))

\* C6 as stated: the dimensions of an image input are embedded in the
\* persisted string and read back with the same width and height; without
\* dimensions in the input the dimensions output is null.
C6_AsStated ==
    ( /\ Created
      /\ TheKey(last.input.content) = "image"
      /\ FieldsValid("image", TheValue(last.input.content)) ) =>
        LET w == TheValue(last.input.content)
        IN /\ last.data.ok
           /\ IF IsWObject(w.dimensions)
              THEN /\ "dimensions" \in JsonKeys(NewPost.content_json)
                   /\ last.data.val[2].dimensions = SubmittedDims(w.dimensions)
              ELSE last.data.val[2].dimensions = None

\* C7 as stated: createPost with image dimensions whose width or height is
\* not positive fails with a ValidationError.
C7_AsStated ==
    ( /\ IsCreatePost
      /\ Populated(last.input.content) = {"image"}
      /\ IsWObject(last.input.content.image[2].dimensions)
      /\ ~PositiveDims(last.input.content.image[2].dimensions) )
    => (~last.ok /\ last.err = "ValidationError")

\* a stored string whose discriminator is missing or names no variant
Unrecognized(post) ==
    LET d == json_loads(post.content_json)
    IN "type" \notin DOMAIN d \/ d["type"] \notin KnownTypes

C9_TextFormat ==
    /\ (Created /\ TheKey(last.input.content) = "text") =>
          LET w == TheValue(last.input.content)
              stored == json_loads(NewPost.content_json)
              m == IF w.format = Absent THEN "PLAIN" ELSE w.format[2]
          IN /\ stored["format"] = PyStr(TextFormat[m])
             /\ last.data.ok
             /\ last.data.val[2].format = Member(m)
    /\ last.op = "posts" =>
          \A i \in DOMAIN posts :
              LET stored == json_loads(posts[i].content_json)
              IN ("type" \in DOMAIN stored /\ stored["type"] = PyStr("text")) =>
                    /\ last.data[i].ok
                    /\ PyStr(TextFormat[last.data[i].val[2].format[2]]) = stored["format"]

C9_Witness ==
    /\ Created
    /\ TheKey(last.input.content) = "text"
    /\ TheValue(last.input.content).format = Absent
    /\ Len(posts) = MaxPosts

\* the greatest common divisor, by its definition
Divides(d, n) == n % d = 0
GreatestCommonDivisor(a, b) ==
    CHOOSE d \in 1..a :
        /\ Divides(d, a) /\ Divides(d, b)
        /\ \A e \in 1..a : (Divides(e, a) /\ Divides(e, b)) => e <= d

\* the number a string of decimal digits writes
RECURSIVE ParseInt(_)
ParseInt(s) ==
    IF Len(s) = 0 THEN 0
    ELSE 10 * ParseInt(SubSeq(s, 1, Len(s) - 1))
         + (CHOOSE v \in 0..9 : DigitChars[v + 1] = s[Len(s)])

IsDigits(s) ==
    /\ Len(s) >= 1
    /\ \A i \in DOMAIN s : \E v \in 0..9 : DigitChars[v + 1] = s[i]
    /\ Len(s) > 1 => s[1] # "0"

\* C10: for width > 0 and height > 0 aspect_ratio returns "W:H" with
\* W = width / gcd and H = height / gcd, so W and H are coprime and
\* W * height = H * width; (1920, 1080) gives "16:9", (100, 100) gives "1:1".
C10_AspectRatio ==
    dims.ratio # << >> =>
        LET s == dims.ratio
            g == GreatestCommonDivisor(dims.width, dims.height)
        IN /\ Cardinality({ i \in DOMAIN s : s[i] = ":" }) = 1
           /\ LET i == CHOOSE i \in DOMAIN s : s[i] = ":"
                  ws == SubSeq(s, 1, i - 1)
                  hs == SubSeq(s, i + 1, Len(s))
              IN /\ IsDigits(ws) /\ IsDigits(hs)
                 /\ ParseInt(ws) = dims.width \div g
                 /\ ParseInt(hs) = dims.height \div g
                 /\ GreatestCommonDivisor(ParseInt(ws), ParseInt(hs)) = 1
                 /\ ParseInt(ws) * dims.height = ParseInt(hs) * dims.width
           /\ (dims.width = 1920 /\ dims.height = 1080) => s = <<"1", "6", ":", "9">>
           /\ (dims.width = 100 /\ dims.height = 100) => s = <<"1", ":", "1">>

C10_Witness ==
    /\ dims.width = 1920
    /\ dims.height = 1080
    /\ dims.ratio = <<"1", "6", ":", "9">>

\* the ids of the users that exist
ExistingUserIds == { users[i].id : i \in DOMAIN users }

\* C11 as stated: every persisted post's user_id is the id of an existing
\* user; createPost with a user_id that names no user persists no post; and
\* deleting a user removes all of its posts.
C11_AsStated ==
    /\ \A p \in DOMAIN posts : posts[p].user_id \in ExistingUserIds
    /\ (IsCreatePost /\ last.input.user_id \notin ExistingUserIds) => ~last.ok
    /\ last.op = "User.delete" =>
          \A p \in DOMAIN posts : posts[p].user_id # last.user_id

====
